---- MODULE Spec2Model ----
(***************************************************************************)
(* Model of src/src/hello-triangle.cpp and src/src/utils.cpp: the single   *)
(* UI thread of WinMain (initialisation, message pump, per-frame render,   *)
(* fence wait, teardown) and the GPU command queue that runs beside it.    *)
(*                                                                         *)
(* The thread is a call stack of frames [fn, idx]; Body(fn)[idx] is the    *)
(* call site the frame is about to execute.  Every graphics API call may   *)
(* report success or failure; what the program does with the result is     *)
(* taken from the source.                                                  *)
(***************************************************************************)
EXTENDS Integers, Sequences, FiniteSets, TLC

\* ---------------------------------------------------------------- bounds
MaxAdapters == 2      \* longest adapter enumeration explored
MaxFrames == 3        \* most WM_PAINT messages handled in one run

\* ----------------------------------------------------- program constants
s_FrameCount == 2

\* The event of LoadAssets is created with bManualReset = FALSE.
bManualReset == FALSE

\* ------------------------------------------------------------- HRESULTs
S_OK == "S_OK"
E_FAIL == "E_FAIL"
E_NOINTERFACE == "E_NOINTERFACE"
HResults == {S_OK, E_FAIL}

FAILED(h) == h # S_OK
SUCCEEDED(h) == h = S_OK

\* Faulty variant: the result is tested but nothing is thrown.
ThrowIfFailed_Ignore(h) == FALSE
\* TRUE when ThrowIfFailed(h) throws std::exception.
ThrowIfFailed(h) == FAILED(h)

\* --------------------------------------------------- function bodies
\* Faulty variant: the window is shown and pumped before LoadAssets.
WinMainBody_PumpBeforeAssets ==
    <<"CreateWindowA", "LoadPipeline", "ShowWindow", "PeekMessageA",
      "LoadAssets", "Destroy", "~Pipeline">>
\* WinMain after RegisterClassExA, in program order.
WinMainBody ==
    <<"CreateWindowA", "LoadPipeline", "LoadAssets", "ShowWindow",
      "PeekMessageA", "Destroy", "~Pipeline">>

LoadPipelineBody ==
    <<"D3D12GetDebugInterface", "QueryInterface", "CreateDXGIFactory2",
      "FindD3D12HardwareAdapter", "ThrowIfFailed(FindD3D12HardwareAdapter)",
      "D3D12CreateDevice", "CreateCommandQueue", "CreateSwapChainForHwnd",
      "MakeWindowAssociation", "swapchain.As", "CreateDescriptorHeap(RTV)",
      "CreateDescriptorHeap(CBV)", "GetBuffer", "CreateCommandAllocator">>

FindD3D12HardwareAdapterBody ==
    <<"hr = E_NOINTERFACE", "EnumAdapters1">>

LoadAssetsBody ==
    <<"CheckFeatureSupport", "D3DX12SerializeVersionedRootSignature",
      "CreateRootSignature", "D3DCompileFromFile(VSMain)",
      "D3DCompileFromFile(PSMain)", "CreateGraphicsPipelineState",
      "CreateCommandList", "cmdList->Close(initial)",
      "CreateCommittedResource(vertexBuffer)", "vertexBuffer->Map",
      "CreateCommittedResource(constantBuffer)", "constantBuffer->Map",
      "constantBuffer->Release", "CreateFence", "CreateEvent",
      "WaitForPreviousFrame">>

\* Faulty variant: the back-buffer index is read before the wait.
WaitForPreviousFrameBody_IndexFirst ==
    <<"GetCurrentBackBufferIndex", "fenceValue += 1", "Signal",
      "GetCompletedValue", "SetEventOnCompletion", "WaitForSingleObject">>
\* Faulty variant: frameIndex is not refreshed after the wait.
WaitForPreviousFrameBody_NoIndex ==
    <<"fenceValue += 1", "Signal", "GetCompletedValue",
      "SetEventOnCompletion", "WaitForSingleObject">>
WaitForPreviousFrameBody ==
    <<"fenceValue += 1", "Signal", "GetCompletedValue",
      "SetEventOnCompletion", "WaitForSingleObject",
      "GetCurrentBackBufferIndex">>

PopulateCommandListBody ==
    <<"cmdAlloc->Reset", "cmdList->Reset", "record", "cmdList->Close">>

\* Faulty variants: Present before the submit; no wait at the end.
RenderBody_PresentFirst ==
    <<"PopulateCommandList", "Present", "ExecuteCommandLists",
      "WaitForPreviousFrame">>
RenderBody_NoWait ==
    <<"PopulateCommandList", "ExecuteCommandLists", "Present">>
RenderBody ==
    <<"PopulateCommandList", "ExecuteCommandLists", "Present",
      "WaitForPreviousFrame">>

DestroyBody ==
    <<"WaitForPreviousFrame", "CloseHandle", "free">>

\* The pseudo-function a thread is in while the OS delivers sent messages
\* to WindowProc from inside CreateWindowA, ShowWindow or DestroyWindow.
SendMessageBody == <<"WindowProc">>

Functions ==
    {"WinMain", "LoadPipeline", "FindD3D12HardwareAdapter", "LoadAssets",
     "WaitForPreviousFrame", "PopulateCommandList", "Render", "Destroy"}

Body(f) ==
    CASE f = "WinMain" -> WinMainBody
      [] f = "LoadPipeline" -> LoadPipelineBody
      [] f = "FindD3D12HardwareAdapter" -> FindD3D12HardwareAdapterBody
      [] f = "LoadAssets" -> LoadAssetsBody
      [] f = "WaitForPreviousFrame" -> WaitForPreviousFrameBody
      [] f = "PopulateCommandList" -> PopulateCommandListBody
      [] f = "Render" -> RenderBody
      [] f = "Destroy" -> DestroyBody
      [] f = "SendMessage" -> SendMessageBody

\* Messages the OS sends to WindowProc from inside the named call.
CreateWindowMessages == <<"WM_NCCREATE", "WM_CREATE">>
ShowWindowMessages == <<"WM_SHOWWINDOW", "WM_SIZE">>
DestroyWindowMessages == <<"WM_DESTROY", "WM_NCDESTROY">>

\* -------------------------------------------------------------- state
VARIABLES
    pc,             \* frame being executed: [fn, idx]
    stack,          \* return frames, innermost first
    status,         \* "running", "thrown", "crashed" or "exited"
    msg,            \* MSG msg of WinMain: the message last retrieved
    sent,           \* messages the OS is still to send inside the current call
    userData,       \* GWLP_USERDATA of the window: "null" or "pipeline"
    shown,          \* ShowWindow has been called
    windowAlive,    \* the window exists
    quitPosted,     \* PostQuitMessage has been called
    adapters,       \* what EnumAdapters1 enumerates
    adapterIdx,     \* FindD3D12HardwareAdapter's loop index
    hr,             \* FindD3D12HardwareAdapter's hr
    outAdapter,     \* its by-value parameter (0 is null, i+1 is adapter i)
    dxgiAdapter,    \* LoadPipeline's dxgiAdapter
    device,         \* adapter the device was created on (0: no device)
    objects,        \* Pipeline members that hold a created object
    rtvCount,       \* render targets obtained by the GetBuffer loop
    rootSigVersion, \* featureData.HighestVersion
    cmdList,        \* "null", "recording" or "closed"
    cbRefs,         \* reference count of the constant buffer resource
    cbMapped,       \* the constant buffer is mapped
    fenceValue,     \* pPipeline->fenceValue
    completed,      \* fence->GetCompletedValue()
    fenceEvent,     \* fenceEvent is signalled
    eventRegs,      \* values SetEventOnCompletion still waits for
    gpuQueue,       \* work submitted to cmdQueue and not yet completed
    frameIndex,     \* pPipeline->frameIndex
    backBuffer,     \* swapchain->GetCurrentBackBufferIndex()
    recordedTarget, \* render target the closed command list draws into
    failedCalls,    \* history: call sites that reported failure
    signalled,      \* history: values passed to Signal, in order
    waitLog,        \* history: steps of the current WaitForPreviousFrame
    frameLog,       \* history: steps of the current Render
    done            \* history: functions that have returned

vars ==
    <<pc, stack, status, msg, sent, userData, shown, windowAlive, quitPosted,
      adapters, adapterIdx, hr, outAdapter, dxgiAdapter, device, objects,
      rtvCount, rootSigVersion, cmdList, cbRefs, cbMapped, fenceValue,
      completed, fenceEvent, eventRegs, gpuQueue, frameIndex, backBuffer,
      recordedTarget, failedCalls, signalled, waitLog, frameLog, done>>

\* Groups used in UNCHANGED.
windowVars == <<msg, sent, userData, shown, windowAlive, quitPosted>>
adapterVars == <<adapters, adapterIdx, hr, outAdapter, dxgiAdapter, device>>
objectVars == <<objects, rtvCount, rootSigVersion, cmdList, cbRefs, cbMapped>>
fenceVars == <<fenceValue, completed, fenceEvent, eventRegs>>
frameVars == <<frameIndex, backBuffer, recordedTarget>>

AdapterKinds == [software : BOOLEAN, d3d12 : BOOLEAN]
AdapterLists == UNION {[1..n -> AdapterKinds] : n \in 0..MaxAdapters}

\* Pipeline pipeline = {} and the locals of WinMain before CreateWindowA.
Init ==
    /\ pc = [fn |-> "WinMain", idx |-> 1]
    /\ stack = <<>>
    /\ status = "running"
    /\ msg = "none"
    /\ sent = <<>>
    /\ userData = "null"
    /\ shown = FALSE
    /\ windowAlive = FALSE
    /\ quitPosted = FALSE
    /\ adapters \in AdapterLists
    /\ adapterIdx = 0
    /\ hr = S_OK
    /\ outAdapter = 0
    /\ dxgiAdapter = 0
    /\ device = 0
    /\ objects = {}
    /\ rtvCount = 0
    /\ rootSigVersion = "none"
    /\ cmdList = "null"
    /\ cbRefs = 0
    /\ cbMapped = FALSE
    /\ fenceValue = 0
    /\ completed = 0
    /\ fenceEvent = FALSE
    /\ eventRegs = {}
    /\ gpuQueue = <<>>
    /\ frameIndex = 0
    /\ backBuffer = 0
    /\ recordedTarget = -1
    /\ failedCalls = {}
    /\ signalled = <<>>
    /\ waitLog = <<>>
    /\ frameLog = <<>>
    /\ done = {}

\* ------------------------------------------------------------ helpers
Running == status = "running"
AtEnd == pc.idx > Len(Body(pc.fn))
Site == IF AtEnd THEN "return" ELSE Body(pc.fn)[pc.idx]
At(f, s) == Running /\ pc.fn = f /\ Site = s
Advanced == [pc EXCEPT !.idx = @ + 1]
InFn(f) == pc.fn = f \/ \E i \in 1..Len(stack) : stack[i].fn = f
IsPrefix(s, t) == Len(s) <= Len(t) /\ \A i \in 1..Len(s) : s[i] = t[i]


\* Everything but the thread and failedCalls.
restVars ==
    <<windowVars, adapterVars, objectVars, fenceVars, gpuQueue, frameVars,
      signalled, waitLog, frameLog, done>>

\* throw std::exception(): nothing in the program catches it.
Thrown(site) ==
    /\ status' = "thrown"
    /\ failedCalls' = failedCalls \cup {site}
    /\ UNCHANGED <<pc, stack, restVars>>

\* A read through a null pointer.
Crashed ==
    /\ status' = "crashed"
    /\ UNCHANGED <<pc, stack, failedCalls, restVars>>

\* Pipeline members (and locals of the loading functions) a call site
\* dereferences.
Requires(site) ==
    CASE site = "QueryInterface" -> {"debugController"}
      [] site = "CreateCommandQueue" -> {"device"}
      [] site = "CreateSwapChainForHwnd" -> {"dxgiFactory"}
      [] site = "MakeWindowAssociation" -> {"dxgiFactory"}
      [] site = "swapchain.As" -> {"swapchain1"}
      [] site = "CreateDescriptorHeap(RTV)" -> {"device"}
      [] site = "CreateDescriptorHeap(CBV)" -> {"device"}
      [] site = "GetBuffer" -> {"swapchain", "device", "rtvDescriptorHeap"}
      [] site = "CreateCommandAllocator" -> {"device"}
      [] site = "CheckFeatureSupport" -> {"device"}
      [] site = "CreateRootSignature" -> {"device", "signature"}
      [] site = "CreateGraphicsPipelineState" -> {"device"}
      [] site = "CreateCommandList" -> {"device"}
      [] site = "cmdList->Close(initial)" -> {"cmdList"}
      [] site = "CreateCommittedResource(vertexBuffer)" -> {"device"}
      [] site = "vertexBuffer->Map" -> {"vertexBuffer"}
      [] site = "CreateCommittedResource(constantBuffer)" -> {"device"}
      [] site = "constantBuffer->Map" ->
            {"constantBuffer", "device", "cbvDescriptorHeap"}
      [] site = "constantBuffer->Release" -> {"constantBuffer"}
      [] site = "CreateFence" -> {"device"}
      [] site = "Signal" -> {"cmdQueue"}
      [] site = "GetCompletedValue" -> {"fence"}
      [] site = "SetEventOnCompletion" -> {"fence"}
      [] site = "GetCurrentBackBufferIndex" -> {"swapchain"}
      [] site = "cmdAlloc->Reset" -> {"cmdAlloc"}
      [] site = "cmdList->Reset" -> {"cmdList"}
      [] site = "record" -> {"cmdList", "cbvDescriptorHeap", "rtvDescriptorHeap"}
      [] site = "cmdList->Close" -> {"cmdList"}
      [] site = "ExecuteCommandLists" -> {"cmdQueue"}
      [] site = "Present" -> {"swapchain"}
      [] OTHER -> {}

\* pPipeline of the executing function is null when WindowProc read a
\* GWLP_USERDATA that WM_CREATE had not set yet.
NullPipeline == InFn("Render") /\ userData = "null"
Dereferencable == Requires(Site) \subseteq objects /\ ~NullPipeline

\* ThrowIfFailed(call): onSuccess and onIgnoredFailure say what happens to
\* restVars.
Checked(site, onSuccess, onIgnoredFailure) ==
    IF ~Dereferencable THEN Crashed
    ELSE \E h \in HResults :
        IF ThrowIfFailed(h) THEN Thrown(site)
        ELSE /\ pc' = Advanced
             /\ UNCHANGED <<stack, status>>
             /\ failedCalls' =
                    IF FAILED(h) THEN failedCalls \cup {site} ELSE failedCalls
             /\ IF SUCCEEDED(h) THEN onSuccess ELSE onIgnoredFailure

\* A call with no result to check.
Unchecked(effect) ==
    IF ~Dereferencable THEN Crashed
    ELSE /\ pc' = Advanced
         /\ UNCHANGED <<stack, status, failedCalls>>
         /\ effect

\* Object a successful creation call stores.
Creates(site) ==
    CASE site = "D3D12GetDebugInterface" -> {"debugController"}
      [] site = "CreateDXGIFactory2" -> {"dxgiFactory"}
      [] site = "CreateCommandQueue" -> {"cmdQueue"}
      [] site = "CreateSwapChainForHwnd" -> {"swapchain1"}
      [] site = "swapchain.As" -> {"swapchain"}
      [] site = "CreateDescriptorHeap(RTV)" -> {"rtvDescriptorHeap"}
      [] site = "CreateDescriptorHeap(CBV)" -> {"cbvDescriptorHeap"}
      [] site = "CreateCommandAllocator" -> {"cmdAlloc"}
      [] site = "CreateRootSignature" -> {"rootSignature"}
      [] site = "CreateGraphicsPipelineState" -> {"pipelineState"}
      [] site = "CreateCommittedResource(vertexBuffer)" -> {"vertexBuffer"}
      [] OTHER -> {}

\* Call sites that only create an object (or nothing) and are wrapped in
\* ThrowIfFailed.
CreationSites ==
    {"D3D12GetDebugInterface", "QueryInterface", "CreateDXGIFactory2",
     "CreateCommandQueue", "CreateSwapChainForHwnd", "MakeWindowAssociation",
     "swapchain.As", "CreateDescriptorHeap(RTV)", "CreateDescriptorHeap(CBV)",
     "CreateCommandAllocator", "CreateRootSignature",
     "CreateGraphicsPipelineState", "CreateCommittedResource(vertexBuffer)",
     "vertexBuffer->Map"}

\* ------------------------------------------------------ call and return
\* A call of one of the program's own functions.
CallFunction ==
    /\ Running /\ ~AtEnd /\ Site \in Functions
    /\ stack' = <<Advanced>> \o stack
    /\ pc' = [fn |-> Site, idx |-> 1]
    /\ waitLog' = IF Site = "WaitForPreviousFrame" THEN <<>> ELSE waitLog
    /\ UNCHANGED <<status, failedCalls, windowVars, adapterVars, objectVars,
                   fenceVars, gpuQueue, frameVars, signalled, frameLog, done>>

\* The end of a function body other than WinMain's.
Return ==
    /\ Running /\ AtEnd /\ stack # <<>>
    /\ pc' = Head(stack)
    /\ stack' = Tail(stack)
    /\ done' = done \cup {pc.fn}
    /\ frameLog' =
          IF pc.fn = "PopulateCommandList" THEN Append(frameLog, "record")
          ELSE IF pc.fn = "WaitForPreviousFrame" /\ Head(stack).fn = "Render"
               THEN Append(frameLog, "wait")
          ELSE frameLog
    /\ UNCHANGED <<status, failedCalls, windowVars, adapterVars, objectVars,
                   fenceVars, gpuQueue, frameVars, signalled, waitLog>>

\* ------------------------------------------------------------ WindowProc
\* WindowProc(hwnd, message, ...) returning to frame ret; rest is what the
\* OS has still to send after this message.
WindowProc(message, ret, rest) ==
    /\ userData' = IF message = "WM_CREATE" THEN "pipeline" ELSE userData
    /\ quitPosted' = (quitPosted \/ message = "WM_DESTROY")
    /\ windowAlive' = (windowAlive /\ message # "WM_CLOSE")
    /\ sent' = IF message = "WM_CLOSE" THEN DestroyWindowMessages ELSE rest
    /\ frameLog' = IF message = "WM_PAINT" THEN <<>> ELSE frameLog
    /\ IF message = "WM_PAINT"
       THEN /\ pc' = [fn |-> "Render", idx |-> 1]
            /\ stack' = <<ret>> \o stack
       ELSE IF message = "WM_CLOSE"
       THEN /\ pc' = [fn |-> "SendMessage", idx |-> 1]
            /\ stack' = <<ret>> \o stack
       ELSE /\ pc' = ret
            /\ stack' = stack
    /\ UNCHANGED <<status, shown, failedCalls, adapterVars, objectVars,
                   fenceVars, gpuQueue, frameVars, signalled, waitLog, done>>

\* The OS sends the next message of the call in progress.
DeliverSent ==
    /\ At("SendMessage", "WindowProc") /\ sent # <<>>
    /\ WindowProc(Head(sent), IF Len(sent) = 1 THEN Advanced ELSE pc,
                  Tail(sent))
    /\ UNCHANGED msg

\* ---------------------------------------------------------------- WinMain
IndexOf(seq, s) == CHOOSE i \in 1..Len(seq) : seq[i] = s

CreateWindowA ==
    /\ At("WinMain", "CreateWindowA")
    /\ \E ok \in BOOLEAN :
        IF ok
        THEN /\ windowAlive' = TRUE
             /\ sent' = CreateWindowMessages
             /\ stack' = <<Advanced>> \o stack
             /\ pc' = [fn |-> "SendMessage", idx |-> 1]
        ELSE /\ pc' = [pc EXCEPT !.idx = IndexOf(WinMainBody, "~Pipeline")]
             /\ UNCHANGED <<windowAlive, sent, stack>>
    /\ UNCHANGED <<status, msg, userData, shown, quitPosted, failedCalls,
                   adapterVars, objectVars, fenceVars, gpuQueue, frameVars,
                   signalled, waitLog, frameLog, done>>

ShowWindow ==
    /\ At("WinMain", "ShowWindow")
    /\ shown' = TRUE
    /\ sent' = ShowWindowMessages
    /\ stack' = <<Advanced>> \o stack
    /\ pc' = [fn |-> "SendMessage", idx |-> 1]
    /\ UNCHANGED <<status, msg, userData, windowAlive, quitPosted,
                   failedCalls, adapterVars, objectVars, fenceVars, gpuQueue,
                   frameVars, signalled, waitLog, frameLog, done>>

\* Messages PeekMessageA can retrieve.  The window is never validated, so a
\* shown window always has a WM_PAINT pending.
Available ==
    (IF windowAlive /\ shown /\ fenceValue <= MaxFrames
        THEN {"WM_PAINT"} ELSE {})
    \cup (IF windowAlive THEN {"WM_CLOSE", "WM_MOUSEMOVE"} ELSE {})
    \cup (IF quitPosted THEN {"WM_QUIT"} ELSE {})

\* One iteration of the message loop that retrieves a message.
PeekMessageA ==
    /\ At("WinMain", "PeekMessageA")
    /\ \E m \in Available :
        /\ msg' = m
        /\ IF m = "WM_QUIT"
           THEN /\ pc' = Advanced
                /\ UNCHANGED <<stack, status, sent, userData, shown,
                               windowAlive, quitPosted, failedCalls,
                               adapterVars, objectVars, fenceVars, gpuQueue,
                               frameVars, signalled, waitLog, frameLog, done>>
           ELSE WindowProc(m, pc, sent)

\* Pipeline's destructor at the end of WinMain releases every ComPtr that
\* is not null; releasing an already destroyed object is undefined.
PipelineDestructor ==
    /\ At("WinMain", "~Pipeline")
    /\ cbRefs' = IF "constantBuffer" \in objects THEN cbRefs - 1 ELSE cbRefs
    /\ objects' = {}
    /\ status' \in (IF "constantBuffer" \in objects /\ cbRefs <= 0
                       THEN {"exited", "crashed"} ELSE {"exited"})
    /\ UNCHANGED <<pc, stack, failedCalls, windowVars, adapterVars, rtvCount,
                   rootSigVersion, cmdList, cbMapped, fenceVars, gpuQueue,
                   frameVars, signalled, waitLog, frameLog, done>>


\* ----------------------------------------------------------- LoadPipeline
\* ThrowIfFailed(<creation call>) in LoadPipeline and LoadAssets.
CreateObject ==
    /\ Running /\ ~AtEnd /\ Site \in CreationSites
    /\ Checked(Site,
          /\ objects' = objects \cup Creates(Site)
          /\ UNCHANGED <<windowVars, adapterVars, rtvCount, rootSigVersion,
                         cmdList, cbRefs, cbMapped, fenceVars, gpuQueue,
                         frameVars, signalled, waitLog, frameLog, done>>,
          UNCHANGED restVars)

\* Entry of FindD3D12HardwareAdapter(factory, outAdapter): outAdapter is a
\* copy of the caller's ComPtr, made by the by-value parameter.
FindAdapterEnter ==
    /\ At("FindD3D12HardwareAdapter", "hr = E_NOINTERFACE")
    /\ hr' = E_NOINTERFACE
    /\ adapterIdx' = 0
    /\ outAdapter' = dxgiAdapter
    /\ pc' = Advanced
    /\ UNCHANGED <<stack, status, failedCalls, windowVars, adapters,
                   dxgiAdapter, device, objectVars, fenceVars, gpuQueue,
                   frameVars, signalled, waitLog, frameLog, done>>

\* Faulty variant: software adapters are not skipped.
IsSoftware_Never(desc) == FALSE
\* desc.Flags & DXGI_ADAPTER_FLAG_SOFTWARE
IsSoftware(desc) == desc.software

\* One pass of the for loop: EnumAdapters1(adapterIdx) succeeded.
FindAdapterIterate ==
    /\ At("FindD3D12HardwareAdapter", "EnumAdapters1")
    /\ adapterIdx < Len(adapters)
    /\ LET desc == adapters[adapterIdx + 1]
           probe == IF desc.d3d12 THEN S_OK ELSE E_FAIL
       IN IF IsSoftware(desc)
          THEN /\ adapterIdx' = adapterIdx + 1
               /\ UNCHANGED <<hr, outAdapter, pc, failedCalls>>
          ELSE /\ hr' = probe
               /\ IF SUCCEEDED(probe)
                  THEN /\ outAdapter' = adapterIdx + 1
                       /\ pc' = Advanced
                       /\ UNCHANGED <<adapterIdx, failedCalls>>
                  ELSE /\ adapterIdx' = adapterIdx + 1
                       /\ failedCalls' =
                              failedCalls \cup {"D3D12CreateDevice(probe)"}
                       /\ UNCHANGED <<outAdapter, pc>>
    /\ UNCHANGED <<stack, status, windowVars, adapters, dxgiAdapter, device,
                   objectVars, fenceVars, gpuQueue, frameVars, signalled,
                   waitLog, frameLog, done>>

\* EnumAdapters1(adapterIdx) reports DXGI_ERROR_NOT_FOUND: the loop ends.
FindAdapterExhausted ==
    /\ At("FindD3D12HardwareAdapter", "EnumAdapters1")
    /\ adapterIdx >= Len(adapters)
    /\ failedCalls' = failedCalls \cup {"EnumAdapters1"}
    /\ pc' = Advanced
    /\ UNCHANGED <<stack, status, restVars>>

\* ThrowIfFailed(FindD3D12HardwareAdapter(dxgiFactory, dxgiAdapter)): the
\* callee's outAdapter is gone, dxgiAdapter is what it was before the call.
FindAdapterCheck ==
    /\ At("LoadPipeline", "ThrowIfFailed(FindD3D12HardwareAdapter)")
    /\ IF ThrowIfFailed(hr) THEN Thrown("FindD3D12HardwareAdapter")
       ELSE /\ pc' = Advanced
            /\ failedCalls' = IF FAILED(hr)
                                 THEN failedCalls \cup {"FindD3D12HardwareAdapter"}
                                 ELSE failedCalls
            /\ UNCHANGED <<stack, status, restVars>>

\* The adapter D3D12CreateDevice uses for a null pAdapter: the first one
\* EnumAdapters enumerates.
DefaultAdapter == 1

D3D12CreateDevice ==
    /\ At("LoadPipeline", "D3D12CreateDevice")
    /\ Checked(Site,
          /\ device' = IF dxgiAdapter = 0 THEN DefaultAdapter ELSE dxgiAdapter
          /\ objects' = objects \cup {"device"}
          /\ UNCHANGED <<windowVars, adapters, adapterIdx, hr, outAdapter,
                         dxgiAdapter, rtvCount, rootSigVersion, cmdList,
                         cbRefs, cbMapped, fenceVars, gpuQueue, frameVars,
                         signalled, waitLog, frameLog, done>>,
          UNCHANGED restVars)

\* One pass of the loop over the s_FrameCount swapchain buffers.
GetBuffer ==
    /\ At("LoadPipeline", "GetBuffer")
    /\ IF ~Dereferencable THEN Crashed
       ELSE \E h \in HResults :
          IF ThrowIfFailed(h) THEN Thrown(Site)
          ELSE /\ rtvCount' = IF SUCCEEDED(h) THEN rtvCount + 1 ELSE rtvCount
               /\ failedCalls' =
                     IF FAILED(h) THEN failedCalls \cup {Site} ELSE failedCalls
               /\ pc' = IF rtvCount + 1 < s_FrameCount /\ SUCCEEDED(h)
                           THEN pc ELSE Advanced
               /\ UNCHANGED <<stack, status, windowVars, adapterVars, objects,
                              rootSigVersion, cmdList, cbRefs, cbMapped,
                              fenceVars, gpuQueue, frameVars, signalled,
                              waitLog, frameLog, done>>

\* ------------------------------------------------------------- LoadAssets
\* CheckFeatureSupport is not wrapped in ThrowIfFailed: on failure the
\* root signature version falls back to 1.0.
CheckFeatureSupport ==
    /\ At("LoadAssets", "CheckFeatureSupport")
    /\ IF ~Dereferencable THEN Crashed
       ELSE \E h \in HResults, v \in {"1_0", "1_1"} :
          /\ rootSigVersion' = IF FAILED(h) THEN "1_0" ELSE v
          /\ failedCalls' =
                IF FAILED(h) THEN failedCalls \cup {Site} ELSE failedCalls
          /\ pc' = Advanced
          /\ UNCHANGED <<stack, status, windowVars, adapterVars, objects,
                         rtvCount, cmdList, cbRefs, cbMapped, fenceVars,
                         gpuQueue, frameVars, signalled, waitLog, frameLog,
                         done>>

\* Calls that return an error blob: on failure the blob is printed and
\* std::exception thrown; the blob is null when the call produced none.
BlobSites ==
    {"D3DX12SerializeVersionedRootSignature", "D3DCompileFromFile(VSMain)",
     "D3DCompileFromFile(PSMain)"}

BlobCreates(site) ==
    CASE site = "D3DX12SerializeVersionedRootSignature" -> {"signature"}
      [] site = "D3DCompileFromFile(VSMain)" -> {"vertexShader"}
      [] site = "D3DCompileFromFile(PSMain)" -> {"pixelShader"}

CallWithErrorBlob ==
    /\ Running /\ pc.fn = "LoadAssets" /\ Site \in BlobSites
    /\ \E h \in HResults, blob \in BOOLEAN :
        IF FAILED(h)
        THEN /\ status' = IF blob THEN "thrown" ELSE "crashed"
             /\ failedCalls' = failedCalls \cup {Site}
             /\ UNCHANGED <<pc, stack, restVars>>
        ELSE /\ blob = FALSE
             /\ objects' = objects \cup BlobCreates(Site)
             /\ pc' = Advanced
             /\ UNCHANGED <<stack, status, failedCalls, windowVars,
                            adapterVars, rtvCount, rootSigVersion, cmdList,
                            cbRefs, cbMapped, fenceVars, gpuQueue, frameVars,
                            signalled, waitLog, frameLog, done>>

\* Command lists are created in the recording state.
CreateCommandList ==
    /\ At("LoadAssets", "CreateCommandList")
    /\ Checked(Site,
          /\ objects' = objects \cup {"cmdList"}
          /\ cmdList' = "recording"
          /\ UNCHANGED <<windowVars, adapterVars, rtvCount, rootSigVersion,
                         cbRefs, cbMapped, fenceVars, gpuQueue, frameVars,
                         signalled, waitLog, frameLog, done>>,
          UNCHANGED restVars)

\* cmdList->Close() in LoadAssets and at the end of PopulateCommandList.
CloseCommandList ==
    /\ \/ At("LoadAssets", "cmdList->Close(initial)")
       \/ At("PopulateCommandList", "cmdList->Close")
    /\ Checked(Site,
          /\ cmdList' = "closed"
          /\ UNCHANGED <<windowVars, adapterVars, objects, rtvCount,
                         rootSigVersion, cbRefs, cbMapped, fenceVars,
                         gpuQueue, frameVars, signalled, waitLog, frameLog,
                         done>>,
          UNCHANGED restVars)

\* CreateCommittedResource hands out the constant buffer with one
\* reference, held by pPipeline->constantBuffer.
CreateConstantBuffer ==
    /\ At("LoadAssets", "CreateCommittedResource(constantBuffer)")
    /\ Checked(Site,
          /\ objects' = objects \cup {"constantBuffer"}
          /\ cbRefs' = 1
          /\ UNCHANGED <<windowVars, adapterVars, rtvCount, rootSigVersion,
                         cmdList, cbMapped, fenceVars, gpuQueue, frameVars,
                         signalled, waitLog, frameLog, done>>,
          UNCHANGED restVars)

\* CreateConstantBufferView, malloc of the CPU copy, then Map.
MapConstantBuffer ==
    /\ At("LoadAssets", "constantBuffer->Map")
    /\ Checked(Site,
          /\ cbMapped' = TRUE
          /\ objects' = objects \cup {"pConstBufferData"}
          /\ UNCHANGED <<windowVars, adapterVars, rtvCount, rootSigVersion,
                         cmdList, cbRefs, fenceVars, gpuQueue, frameVars,
                         signalled, waitLog, frameLog, done>>,
          /\ objects' = objects \cup {"pConstBufferData"}
          /\ UNCHANGED <<windowVars, adapterVars, rtvCount, rootSigVersion,
                         cmdList, cbRefs, cbMapped, fenceVars, gpuQueue,
                         frameVars, signalled, waitLog, frameLog, done>>)

\* pPipeline->constantBuffer->Release(): the raw Release through the
\* ComPtr drops a reference and leaves the ComPtr pointing at the object;
\* the object is destroyed, and unmapped with it, when the count is 0.
ReleaseConstantBuffer ==
    /\ At("LoadAssets", "constantBuffer->Release")
    /\ Unchecked(
          /\ cbRefs' = cbRefs - 1
          /\ cbMapped' = (cbMapped /\ cbRefs - 1 > 0)
          /\ UNCHANGED <<windowVars, adapterVars, objects, rtvCount,
                         rootSigVersion, cmdList, fenceVars, gpuQueue,
                         frameVars, signalled, waitLog, frameLog, done>>)

\* pPipeline->fenceValue = 0, then CreateFence with that initial value.
CreateFence ==
    /\ At("LoadAssets", "CreateFence")
    /\ IF ~Dereferencable THEN Crashed
       ELSE \E h \in HResults :
          IF ThrowIfFailed(h) THEN Thrown(Site)
          ELSE /\ fenceValue' = 0
               /\ completed' = 0
               /\ objects' = IF SUCCEEDED(h) THEN objects \cup {"fence"}
                             ELSE objects
               /\ failedCalls' =
                     IF FAILED(h) THEN failedCalls \cup {Site} ELSE failedCalls
               /\ pc' = Advanced
               /\ UNCHANGED <<stack, status, windowVars, adapterVars,
                              rtvCount, rootSigVersion, cmdList, cbRefs,
                              cbMapped, fenceEvent, eventRegs, gpuQueue,
                              frameVars, signalled, waitLog, frameLog, done>>

\* CreateEvent(nullptr, bManualReset, FALSE, nullptr): created not
\* signalled; a null handle goes to ThrowIfFailed(HRESULT_FROM_WIN32(..)).
CreateEvent ==
    /\ At("LoadAssets", "CreateEvent")
    /\ Checked(Site,
          /\ objects' = objects \cup {"fenceEvent"}
          /\ fenceEvent' = FALSE
          /\ UNCHANGED <<windowVars, adapterVars, rtvCount, rootSigVersion,
                         cmdList, cbRefs, cbMapped, fenceValue, completed,
                         eventRegs, gpuQueue, frameVars, signalled, waitLog,
                         frameLog, done>>,
          UNCHANGED restVars)


\* --------------------------------------------------- WaitForPreviousFrame
\* Faulty variant: the increment is lost.
NextFenceValue_Same(v) == v
\* pPipeline->fenceValue += 1
NextFenceValue(v) == v + 1

\* Faulty variant: the comparison reversed.
WaitNeeded_Flipped(c, f) == c > f
\* fence->GetCompletedValue() < pPipeline->fenceValue
WaitNeeded(c, f) == c < f

\* Faulty variant: the event is registered for the value after this one.
SetEventTarget_Next(f) == f + 1
\* The value SetEventOnCompletion is asked to wait for.
SetEventTarget(f) == f

IncrementFenceValue ==
    /\ At("WaitForPreviousFrame", "fenceValue += 1")
    /\ Unchecked(
          /\ fenceValue' = NextFenceValue(fenceValue)
          /\ waitLog' = Append(waitLog, "increment")
          /\ UNCHANGED <<windowVars, adapterVars, objectVars, completed,
                         fenceEvent, eventRegs, gpuQueue, frameVars,
                         signalled, frameLog, done>>)

\* cmdQueue->Signal(fence, fenceValue) queues the signal behind the work
\* already submitted.
Signal ==
    /\ At("WaitForPreviousFrame", "Signal")
    /\ Checked(Site,
          /\ gpuQueue' = Append(gpuQueue, [op |-> "signal", value |-> fenceValue])
          /\ signalled' = Append(signalled, fenceValue)
          /\ waitLog' = Append(waitLog, "signal")
          /\ UNCHANGED <<windowVars, adapterVars, objectVars, fenceVars,
                         frameVars, frameLog, done>>,
          /\ waitLog' = Append(waitLog, "signal")
          /\ UNCHANGED <<windowVars, adapterVars, objectVars, fenceVars,
                         gpuQueue, frameVars, signalled, frameLog, done>>)

\* if (fence->GetCompletedValue() < fenceValue): skip SetEventOnCompletion
\* and WaitForSingleObject when the fence is already there.
CompareFence ==
    /\ At("WaitForPreviousFrame", "GetCompletedValue")
    /\ IF ~Dereferencable THEN Crashed
       ELSE /\ pc' = IF WaitNeeded(completed, fenceValue)
                        THEN Advanced ELSE [pc EXCEPT !.idx = @ + 3]
            /\ waitLog' = Append(waitLog, "compare")
            /\ UNCHANGED <<stack, status, failedCalls, windowVars,
                           adapterVars, objectVars, fenceVars, gpuQueue,
                           frameVars, signalled, frameLog, done>>

\* fence->SetEventOnCompletion(value, fenceEvent): the event is set at once
\* when the fence has already reached the value, else when it reaches it.
SetEventOnCompletion ==
    /\ At("WaitForPreviousFrame", "SetEventOnCompletion")
    /\ Checked(Site,
          /\ IF completed >= SetEventTarget(fenceValue)
             THEN fenceEvent' = TRUE /\ eventRegs' = eventRegs
             ELSE eventRegs' = eventRegs \cup {SetEventTarget(fenceValue)}
                  /\ fenceEvent' = fenceEvent
          /\ UNCHANGED <<windowVars, adapterVars, objectVars, fenceValue,
                         completed, gpuQueue, frameVars, signalled, waitLog,
                         frameLog, done>>,
          UNCHANGED restVars)

\* WaitForSingleObject(fenceEvent, INFINITE): returns once the event is
\* signalled; an auto-reset event is reset by the wait that it releases.
WaitForSingleObject ==
    /\ At("WaitForPreviousFrame", "WaitForSingleObject")
    /\ fenceEvent
    /\ fenceEvent' = bManualReset
    /\ pc' = Advanced
    /\ UNCHANGED <<stack, status, failedCalls, windowVars, adapterVars,
                   objectVars, fenceValue, completed, eventRegs, gpuQueue,
                   frameVars, signalled, waitLog, frameLog, done>>

\* pPipeline->frameIndex = swapchain->GetCurrentBackBufferIndex()
GetCurrentBackBufferIndex ==
    /\ At("WaitForPreviousFrame", "GetCurrentBackBufferIndex")
    /\ Unchecked(
          /\ frameIndex' = backBuffer
          /\ waitLog' = Append(waitLog, "index")
          /\ UNCHANGED <<windowVars, adapterVars, objectVars, fenceVars,
                         gpuQueue, backBuffer, recordedTarget, signalled,
                         frameLog, done>>)

\* ---------------------------------------------------- PopulateCommandList
ResetCommandAllocator ==
    /\ At("PopulateCommandList", "cmdAlloc->Reset")
    /\ Checked(Site, UNCHANGED restVars, UNCHANGED restVars)

\* cmdList->Reset(cmdAlloc, pipelineState) puts the list back in the
\* recording state.
ResetCommandList ==
    /\ At("PopulateCommandList", "cmdList->Reset")
    /\ Checked(Site,
          /\ cmdList' = "recording"
          /\ UNCHANGED <<windowVars, adapterVars, objects, rtvCount,
                         rootSigVersion, cbRefs, cbMapped, fenceVars,
                         gpuQueue, frameVars, signalled, waitLog, frameLog,
                         done>>,
          UNCHANGED restVars)

\* The recorded commands: bind the CBV table, transition
\* renderTargets[frameIndex] to RENDER_TARGET, clear, draw, transition back.
RecordCommands ==
    /\ At("PopulateCommandList", "record")
    /\ Unchecked(
          /\ recordedTarget' = frameIndex
          /\ UNCHANGED <<windowVars, adapterVars, objectVars, fenceVars,
                         gpuQueue, frameIndex, backBuffer, signalled,
                         waitLog, frameLog, done>>)

\* ------------------------------------------------------------------ Render
ExecuteCommandLists ==
    /\ At("Render", "ExecuteCommandLists")
    /\ Unchecked(
          /\ gpuQueue' = Append(gpuQueue,
                                [op |-> "execute", value |-> recordedTarget])
          /\ frameLog' = Append(frameLog, "submit")
          /\ UNCHANGED <<windowVars, adapterVars, objectVars, fenceVars,
                         frameVars, signalled, waitLog, done>>)

\* swapchain->Present(1, 0): queues the flip; the current back buffer moves
\* to the next of the s_FrameCount buffers.
Present ==
    /\ At("Render", "Present")
    /\ Checked(Site,
          /\ gpuQueue' = Append(gpuQueue,
                                [op |-> "present", value |-> backBuffer])
          /\ backBuffer' = (backBuffer + 1) % s_FrameCount
          /\ frameLog' = Append(frameLog, "present")
          /\ UNCHANGED <<windowVars, adapterVars, objectVars, fenceVars,
                         frameIndex, recordedTarget, signalled, waitLog,
                         done>>,
          UNCHANGED restVars)

\* ----------------------------------------------------------------- Destroy
CloseHandle ==
    /\ At("Destroy", "CloseHandle")
    /\ Unchecked(
          /\ objects' = objects \ {"fenceEvent"}
          /\ UNCHANGED <<windowVars, adapterVars, rtvCount, rootSigVersion,
                         cmdList, cbRefs, cbMapped, fenceVars, gpuQueue,
                         frameVars, signalled, waitLog, frameLog, done>>)

\* free(pPipeline->pConstBufferData)
FreeConstBufferData ==
    /\ At("Destroy", "free")
    /\ Unchecked(
          /\ objects' = objects \ {"pConstBufferData"}
          /\ UNCHANGED <<windowVars, adapterVars, rtvCount, rootSigVersion,
                         cmdList, cbRefs, cbMapped, fenceVars, gpuQueue,
                         frameVars, signalled, waitLog, frameLog, done>>)

\* --------------------------------------------------------------------- GPU
\* The command queue completes the oldest piece of submitted work, in
\* submission order.  A completed Signal sets the fence and every event
\* registered for a value the fence has now reached.  (Device removal,
\* which forces every fence to UINT64_MAX, is outside this model.)
GpuComplete ==
    /\ Running
    /\ gpuQueue # <<>>
    /\ gpuQueue' = Tail(gpuQueue)
    /\ LET item == Head(gpuQueue)
           reached == {r \in eventRegs : r <= item.value}
       IN IF item.op = "signal"
          THEN /\ completed' = item.value
               /\ eventRegs' = eventRegs \ reached
               /\ fenceEvent' = (fenceEvent \/ reached # {})
          ELSE UNCHANGED <<completed, eventRegs, fenceEvent>>
    /\ UNCHANGED <<pc, stack, status, failedCalls, windowVars, adapterVars,
                   objectVars, fenceValue, frameVars, signalled, waitLog,
                   frameLog, done>>

\* ----------------------------------------------------------- specification
Thread ==
    \/ CallFunction
    \/ Return
    \/ DeliverSent
    \/ CreateWindowA
    \/ ShowWindow
    \/ PeekMessageA
    \/ PipelineDestructor
    \/ CreateObject
    \/ FindAdapterEnter
    \/ FindAdapterIterate
    \/ FindAdapterExhausted
    \/ FindAdapterCheck
    \/ D3D12CreateDevice
    \/ GetBuffer
    \/ CheckFeatureSupport
    \/ CallWithErrorBlob
    \/ CreateCommandList
    \/ CloseCommandList
    \/ CreateConstantBuffer
    \/ MapConstantBuffer
    \/ ReleaseConstantBuffer
    \/ CreateFence
    \/ CreateEvent
    \/ IncrementFenceValue
    \/ Signal
    \/ CompareFence
    \/ SetEventOnCompletion
    \/ WaitForSingleObject
    \/ GetCurrentBackBufferIndex
    \/ ResetCommandAllocator
    \/ ResetCommandList
    \/ RecordCommands
    \/ ExecuteCommandLists
    \/ Present
    \/ CloseHandle
    \/ FreeConstBufferData

Next == Thread \/ GpuComplete

Spec == Init /\ [][Next]_vars

\* The thread keeps running while it can, and the GPU completes everything
\* that is submitted to the queue.
LiveSpec == Spec /\ WF_vars(Thread) /\ WF_vars(GpuComplete)


\* ------------------------------------------------------------------ claims
Terminated == status \in {"thrown", "crashed"}

\* WaitForPreviousFrame is at its end, or the caller is just past the call.
WaitReturned ==
    \/ pc.fn = "WaitForPreviousFrame" /\ AtEnd
    \/ /\ pc.fn \in {"LoadAssets", "Render", "Destroy"}
       /\ pc.idx > 1
       /\ Body(pc.fn)[pc.idx - 1] = "WaitForPreviousFrame"

\* C1: whenever WaitForPreviousFrame returns (in LoadAssets, in every Render
\* and in Destroy) the fence's completed value is at least fenceValue, and a
\* Render starts with no GPU work of an earlier frame outstanding.
C1_WaitBlocksUntilFence ==
    /\ (Running /\ WaitReturned) => completed >= fenceValue
    /\ (Running /\ pc.fn = "Render" /\ pc.idx = 1) => gpuQueue = <<>>

C1_Witness ==
    /\ Running /\ WaitReturned /\ pc.fn = "Render"
    /\ fenceValue >= 2 /\ completed >= fenceValue

\* C2 as stated: every call that reports failure ends the process; execution
\* never continues past a failed call.
C2_Original == failedCalls # {} => Terminated

\* Failures the program does not throw on: CheckFeatureSupport (falls back
\* to root signature 1.0), the per-adapter D3D12CreateDevice probe (next
\* adapter is tried) and the EnumAdapters1 that ends the enumeration.
Tolerated == {"CheckFeatureSupport", "D3D12CreateDevice(probe)", "EnumAdapters1"}

\* C2 amended: a failure of any call other than the three tolerated ones
\* ends the process at that call: the thread never runs on past it.
C2_Amended == (failedCalls \ Tolerated # {}) => Terminated

C2_Witness ==
    /\ status = "thrown"
    /\ "Present" \in failedCalls
    /\ "CheckFeatureSupport" \in failedCalls

FrameSteps == <<"record", "submit", "present", "wait">>

\* C3: a WM_PAINT is handled by record, submit, present, wait in that order;
\* no step runs unless the earlier ones of the frame succeeded, the command
\* list is closed when it is submitted, and a Render that returns has done
\* all four.
C3_FrameOrder ==
    /\ IsPrefix(frameLog, FrameSteps)
    /\ Len(frameLog) >= 1 => cmdList = "closed"
    /\ (~InFn("Render") /\ frameLog # <<>>) => frameLog = FrameSteps

C3_Witness == ~InFn("Render") /\ frameLog = FrameSteps /\ msg = "WM_PAINT"

\* C4: LoadAssets runs only after LoadPipeline has returned, and Render runs
\* only after both have returned, whatever message WindowProc is given
\* during CreateWindowA, ShowWindow or the message loop.
C4_InitBeforeRender ==
    /\ InFn("LoadAssets") => "LoadPipeline" \in done
    /\ InFn("Render") => {"LoadPipeline", "LoadAssets"} \subseteq done
    /\ (pc.fn = "SendMessage" /\ ~shown) => ~InFn("Render")

C4_Witness ==
    /\ Running /\ InFn("Render")
    /\ {"LoadPipeline", "LoadAssets"} \subseteq done

WaitSteps == <<"increment", "signal", "compare", "index">>

\* C5: a WaitForPreviousFrame call goes through increment, signal,
\* compare-and-wait, read the back-buffer index, in that order; a call that
\* returns has done all four, has signalled the incremented value and leaves
\* frameIndex equal to the swapchain's current back-buffer index.
C5_WaitSequence ==
    /\ IsPrefix(waitLog, WaitSteps)
    /\ (Running /\ pc.fn = "WaitForPreviousFrame" /\ AtEnd) =>
          /\ waitLog = WaitSteps
          /\ signalled # <<>> /\ signalled[Len(signalled)] = fenceValue
          /\ frameIndex = backBuffer

C5_Witness ==
    /\ Running /\ pc.fn = "WaitForPreviousFrame" /\ AtEnd
    /\ waitLog = WaitSteps /\ fenceValue >= 2

\* C6: fenceValue starts at 0 and goes up by exactly 1 per call, before the
\* Signal: the i-th value signalled is i, so each is greater than all before
\* it, and the fence's completed value never exceeds fenceValue.
C6_FenceMonotonic ==
    /\ \A i \in 1..Len(signalled) : signalled[i] = i
    /\ fenceValue \in {Len(signalled), Len(signalled) + 1}
    /\ completed <= fenceValue

C6_Witness == Len(signalled) >= 2 /\ completed = 2

\* C7: with a GPU that completes what is submitted, a WaitForPreviousFrame
\* call whose Signal and SetEventOnCompletion succeed returns, whenever the
\* GPU completes the signal; and at its return fenceEvent is not signalled
\* and no completion is still registered to signal it.
C7_WaitTerminates ==
    /\ (Running /\ pc.fn = "WaitForPreviousFrame")
          ~> (pc.fn # "WaitForPreviousFrame"
              \/ failedCalls \cap {"Signal", "SetEventOnCompletion"} # {})
    /\ []((pc.fn = "WaitForPreviousFrame" /\ AtEnd)
             => (~fenceEvent /\ eventRegs = {}))

\* The GPU completed the signal between the check and SetEventOnCompletion.
C7_Witness ==
    /\ At("WaitForPreviousFrame", "SetEventOnCompletion")
    /\ completed = fenceValue

\* C8: when cmdAlloc->Reset() runs, in the first frame and in every later
\* one, everything submitted to the queue has completed and the fence's
\* completed value equals fenceValue.
C8_ResetAfterGpuDone ==
    (Running /\ pc.fn = "PopulateCommandList" /\ pc.idx <= 2) =>
        /\ gpuQueue = <<>>
        /\ completed = fenceValue

C8_Witness ==
    /\ At("PopulateCommandList", "cmdList->Reset")
    /\ fenceValue >= 2

\* C9: while pPipeline->constantBuffer holds the constant buffer its
\* reference count is at least 1, and it is never released more often than
\* it was acquired.
C9_ConstantBufferAlive ==
    /\ "constantBuffer" \in objects => cbRefs >= 1
    /\ cbRefs >= 0

\* C10: once FindD3D12HardwareAdapter has returned a success code,
\* LoadPipeline's dxgiAdapter is the adapter selected in the function, and
\* the device is created on that adapter.
C10_DeviceOnFoundAdapter ==
    ("FindD3D12HardwareAdapter" \in done /\ SUCCEEDED(hr)) =>
        /\ dxgiAdapter = outAdapter
        /\ device # 0 => device = outAdapter


\* Adapter i+1 of the enumeration is hardware and passes the D3D12 check.
Suitable(i) == ~adapters[i].software /\ adapters[i].d3d12
SuitableSet == {i \in 1..Len(adapters) : Suitable(i)}
Lowest(S) == CHOOSE i \in S : \A j \in S : i <= j

\* C11: the scan goes up the enumeration, skipping software adapters and
\* stopping at the first hardware adapter that passes the D3D12 check: no
\* adapter below the loop index is suitable, and the function returns S_OK
\* exactly when a suitable adapter exists, having selected the lowest one;
\* otherwise it returns a failure code, E_NOINTERFACE when there is no
\* hardware adapter at all.
C11_AdapterScan ==
    /\ (pc.fn = "FindD3D12HardwareAdapter" /\ pc.idx = 2) =>
          \A i \in 1..adapterIdx : i \in 1..Len(adapters) /\ ~Suitable(i)
    /\ ((pc.fn = "FindD3D12HardwareAdapter" /\ AtEnd)
        \/ "FindD3D12HardwareAdapter" \in done) =>
          /\ SUCCEEDED(hr) <=> SuitableSet # {}
          /\ SUCCEEDED(hr) => outAdapter = Lowest(SuitableSet)
          /\ (\A i \in 1..Len(adapters) : adapters[i].software)
                => hr = E_NOINTERFACE

\* The first adapter was passed over and the second selected.
C11_Witness ==
    /\ pc.fn = "FindD3D12HardwareAdapter" /\ AtEnd
    /\ hr = S_OK /\ outAdapter = 2 /\ adapters[1].software

\* C12: while PopulateCommandList records a frame, frameIndex is one of the
\* s_FrameCount buffers, has a render target, and is the swapchain's current
\* back buffer; the target the recorded list draws into is still the current
\* back buffer when Present is called.
C12_BackBufferTracking ==
    /\ (Running /\ pc.fn = "PopulateCommandList") =>
          /\ frameIndex \in 0..(s_FrameCount - 1)
          /\ frameIndex < rtvCount
          /\ frameIndex = backBuffer
    /\ (Running /\ InFn("Render") /\ ~InFn("WaitForPreviousFrame")
        /\ "record" \in {frameLog[i] : i \in 1..Len(frameLog)}
        /\ "present" \notin {frameLog[i] : i \in 1..Len(frameLog)}) =>
          recordedTarget = backBuffer

\* The third frame: the index has gone round the two buffers.
C12_Witness ==
    /\ At("Render", "Present")
    /\ fenceValue = 3 /\ frameIndex = 0 /\ recordedTarget = 0

====
